---- MODULE Spec2Model ----
(***************************************************************************)
(* caddy-docker-proxy: the Caddyfile generator (GenerateCaddyFile, the     *)
(* merge engine, the serializer) and the reconciliation loop of            *)
(* DockerLoader (Load, monitorEvents, update), from src/plugin/loader.go.  *)
(*                                                                         *)
(* Text is modelled structurally: a document is a sequence of lines, a     *)
(* line is [indent, words]; the diagnostic text is a sequence of lines     *)
(* <<level, message>>.  A nil pointer is the empty sequence <<>> and a     *)
(* non-nil one a one-element sequence.  A map key is [base, sfx]: the      *)
(* string base followed by the suffix number sfx (0: no suffix), ordered   *)
(* as the strings are ordered.                                             *)
(*                                                                         *)
(* Time is discrete.  One tick is the debounce delay of monitorEvents      *)
(* (100ms); the polling interval (a flag) and the availability cache       *)
(* interval are scaled to a few ticks.  Local statements take no time:     *)
(* time passes only while a goroutine waits for the orchestrator, for the  *)
(* validate/apply collaborator or for an event.                            *)
(***************************************************************************)
EXTENDS Integers, Sequences, FiniteSets, TLC

\* ------------------------------------------------------------------ bounds
\* the number of distinct strings createUniqueSuffix is modelled to return
MaxSfx == 2
\* the largest numeric suffix a label segment carries (caddy.tls_1)
MaxDigitSfx == 1
\* the number of update goroutines that can be in progress at once
MaxUpdates == 2
\* the number of trees merged one after the other into one tree
MaxMerges == 2

\* --------------------------------------------------------------- constants
\* monitorEvents: timer.Reset(100 * time.Millisecond), one tick
debounceInterval == 1
\* pollingInterval (flag docker-polling-interval), in ticks
pollingInterval == 2
\* swarmAvailabilityCacheInterval, in ticks
swarmAvailabilityCacheInterval == 2

VARIABLES
    \* DockerLoader
    initialized, timer, skipEvents, input, processCaddyfile,
    previousCaddyfile, previousLogs,
    \* CaddyfileGenerator (options and availability cache)
    generator,
    \* the orchestrator: the states it can be in when the docker client asks
    worlds,
    \* goroutines: the running calls of update, and monitorEvents
    updates, monitor,
    \* the result of the last direct call of GenerateCaddyFile
    genOut,
    \* history: how the cycle ended that the last step finished (if it
    \* finished one), ticks since the last start of update, and the
    \* generated bytes of the last rejected document
    lastOutcome, sinceStart, lastRejected,
    \* a function of the generator called on its own: its inputs and result
    call

loaderVars == <<initialized, timer, skipEvents, input, processCaddyfile,
                previousCaddyfile, previousLogs, updates, monitor,
                lastOutcome, sinceStart, lastRejected, call>>
vars == <<initialized, timer, skipEvents, input, processCaddyfile,
          previousCaddyfile, previousLogs, generator, worlds, updates, monitor,
          genOut, lastOutcome, sinceStart, lastRejected, call>>

\* ------------------------------------------------------ directive trees
Key(base, sfx) == [base |-> base, sfx |-> sfx]

\* directiveData{name, args, children}
Directive(name, args, children) ==
    [name |-> name, args |-> args, children |-> children]

NoChildren == [k \in {} |-> <<>>]

Leaf(name, args) == Directive(name, args, NoChildren)

\* the strings used as names and key bases, in byte order
BaseOrder ==
    <<"", "a.com", "a.com b.com", "address", "b.com", "caddy", "gzip", "proxy",
      "sourcepath", "targetpath", "targetport", "targetprotocol", "tls",
      "websocket">>

Rank(base) == CHOOSE i \in 1..Len(BaseOrder) : BaseOrder[i] = base

\* sort.Strings order of two keys
KeyLess(k1, k2) ==
    \/ Rank(k1.base) < Rank(k2.base)
    \/ k1.base = k2.base /\ k1.sfx < k2.sfx

\* removeSuffix: strips a trailing _<digits>
removeSuffix(key) == Key(key.base, 0)

\* createUniqueSuffix: string(val.Uint64()) of a random value. The suffixes
\* it can return, as suffix numbers after every digit suffix.
createUniqueSuffix == {MaxDigitSfx + i : i \in 1..MaxSfx}

\* a variant of addArgs that replaces the arguments
setArgs(directive, args) == [directive EXCEPT !.args = args]

\* directive.addArgs(args...)
addArgs(directive, args) == [directive EXCEPT !.args = @ \o args]

directivesAreSimilar(directiveA, directiveB) ==
    /\ Len(directiveA.args) = Len(directiveB.args)
    /\ \A i \in 1..Len(directiveA.args) : directiveA.args[i] = directiveB.args[i]

\* the orders a Go range over a map with key set S can take
Orders(S) ==
    {o \in [1..Cardinality(S) -> S] :
        \A i, j \in 1..Cardinality(S) : i # j => o[i] # o[j]}

\* the body of mergeDirectives' loop for the keys of directiveB in `order`:
\* the set of trees directiveA can become
RECURSIVE mergeChildren(_, _, _)
mergeChildren(directiveA, directiveB, order) ==
    IF order = <<>> THEN {directiveA}
    ELSE
        LET keyB == Head(order)
            subDirectiveB == directiveB.children[keyB]
            after ==
                IF keyB \in DOMAIN directiveA.children
                THEN LET subDirectiveA == directiveA.children[keyB] IN
                     IF /\ subDirectiveA.name = "proxy"
                        /\ subDirectiveB.name = "proxy"
                        /\ Len(subDirectiveA.args) > 0
                        /\ Len(subDirectiveB.args) > 0
                        /\ subDirectiveA.args[1] = subDirectiveB.args[1]
                     THEN {[directiveA EXCEPT !.children[keyB] =
                               addArgs(subDirectiveA, Tail(subDirectiveB.args))]}
                     ELSE IF directivesAreSimilar(subDirectiveA, subDirectiveB)
                     THEN {directiveA}
                     ELSE {[directiveA EXCEPT !.children =
                               (Key(removeSuffix(keyB).base, s) :> subDirectiveB) @@ @] :
                           s \in createUniqueSuffix}
                ELSE {[directiveA EXCEPT !.children = (keyB :> subDirectiveB) @@ @]}
        IN UNION {mergeChildren(a, directiveB, Tail(order)) : a \in after}

\* mergeDirectives(directiveA, directiveB), each nil (<<>>) or <<directive>>:
\* the set of results, over the map's iteration orders and the suffixes drawn
mergeDirectives(directiveA, directiveB) ==
    IF directiveA = <<>> THEN {directiveB}
    ELSE IF directiveB = <<>> THEN {directiveA}
    ELSE {<<r>> : r \in UNION {mergeChildren(directiveA[1], directiveB[1], o) :
                                 o \in Orders(DOMAIN directiveB[1].children)}}

\* -------------------------------------------------------------- serializer
\* getSortedKeys
RECURSIVE getSortedKeys(_)
getSortedKeys(keys) ==
    IF keys = {} THEN <<>>
    ELSE LET first == CHOOSE k \in keys : \A o \in keys \ {k} : KeyLess(k, o)
         IN <<first>> \o getSortedKeys(keys \ {first})

Line(level, words) == [indent |-> level * 2, words |-> words]

RECURSIVE writeDirective(_, _)
RECURSIVE writeKeys(_, _, _)

\* writeDirectives, for the keys already sorted
writeKeys(directives, keys, level) ==
    IF keys = <<>> THEN <<>>
    ELSE writeDirective(directives[Head(keys)], level)
            \o writeKeys(directives, Tail(keys), level)

writeDirectives(directives, level) ==
    writeKeys(directives, getSortedKeys(DOMAIN directives), level)

writeDirective(directive, level) ==
    LET head == (IF directive.name # "" THEN <<directive.name>> ELSE <<>>)
                    \o directive.args
    IN IF DOMAIN directive.children # {}
       THEN <<Line(level, head \o <<"{">>)>>
                \o writeDirectives(directive.children, level + 1)
                \o <<Line(level, <<"}">>)>>
       ELSE <<Line(level, head)>>

\* ------------------------------------------------------------------ parser
\* A label is its name split at the dots into keys, and its value as the
\* sequence of its pieces: " " is one whitespace character, "{{.Name}}" a
\* template action, "{{" an action that does not parse, anything else text.
Label(label, value) == [label |-> label, value |-> value]

\* options.labelPrefix: the prefix the generator is created with
labelPrefix == "caddy"

\* labelRegex: ^<prefix>(_\d+)?(\.|$)
labelRegexMatch(label) == Head(label).base = labelPrefix

\* processVariables: the template executed on the data, or the content as it
\* is when the template does not parse
processVariables(data, content) ==
    IF \E i \in DOMAIN content : content[i] = "{{"
    THEN content
    ELSE [i \in DOMAIN content |->
            IF content[i] = "{{.Name}}" THEN data.Name ELSE content[i]]

\* regSplit(text, "\\s+"): the pieces between the runs of whitespace, the
\* empty pieces before a leading and after a trailing run included
RECURSIVE regSplit(_)
regSplit(text) ==
    IF text = <<>> THEN <<"">>
    ELSE LET rest == regSplit(Tail(text)) IN
         IF Head(text) = " "
         THEN IF Len(text) > 1 /\ text[2] = " " THEN rest ELSE <<"">> \o rest
         ELSE <<Head(text) \o Head(rest)>> \o Tail(rest)

parseArgs(text) ==
    LET args == regSplit(text)
    IN IF Len(args) = 1 /\ args[1] = "" THEN <<>> ELSE args

\* getOrCreateDirective: directiveMap after the directives on the path
\* that were missing have been created
RECURSIVE getOrCreateDirective(_, _, _)
getOrCreateDirective(directiveMap, path, skipFirstDirectiveName) ==
    IF path = <<>> THEN directiveMap
    ELSE LET p == Head(path)
             d == IF p \in DOMAIN directiveMap THEN directiveMap[p]
                  ELSE Directive(IF skipFirstDirectiveName THEN ""
                                 ELSE removeSuffix(p).base,
                                 <<>>, NoChildren)
         IN (p :> [d EXCEPT !.children =
                      getOrCreateDirective(@, Tail(path), FALSE)]) @@ directiveMap

\* directive.args = args for the directive getOrCreateDirective returned
RECURSIVE withArgs(_, _, _)
withArgs(directiveMap, path, args) ==
    IF Len(path) = 1
    THEN [directiveMap EXCEPT ![Head(path)].args = args]
    ELSE [directiveMap EXCEPT ![Head(path)].children = withArgs(@, Tail(path), args)]

\* the loop of convertLabelsToDirectives over the labels in `order`
RECURSIVE convertLabels(_, _, _)
convertLabels(directiveMap, order, templateData) ==
    IF order = <<>> THEN directiveMap
    ELSE LET l == Head(order)
             next == IF ~labelRegexMatch(l.label) THEN directiveMap
                     ELSE withArgs(getOrCreateDirective(directiveMap, l.label, TRUE),
                                   l.label,
                                   parseArgs(processVariables(templateData, l.value)))
         IN convertLabels(next, Tail(order), templateData)

\* convertLabelsToDirectives: the maps it can return, over the orders the
\* range over the labels can take
convertLabelsToDirectives(labels, templateData) ==
    {convertLabels(NoChildren, order, templateData) : order \in Orders(labels)}

\* directive.children[name]: nil (<<>>) or <<the child>>
Child(directive, name) ==
    IF Key(name, 0) \in DOMAIN directive.children
    THEN <<directive.children[Key(name, 0)]>> ELSE <<>>

\* child != nil && len(child.args) > 0
HasArgs(child) == child # <<>> /\ Len(child[1].args) > 0

\* strings.Join(args, " ")
RECURSIVE Join(_)
Join(args) ==
    IF args = <<>> THEN ""
    ELSE IF Len(args) = 1 THEN args[1]
    ELSE args[1] \o " " \o Join(Tail(args))

\* parseDirectives, lines 525-537: the argument for one proxy target
targetArg(target, targetProtocol, targetPort, targetPath) ==
    (IF HasArgs(targetProtocol) THEN targetProtocol[1].args[1] \o "://" ELSE "")
        \o target
        \o (IF HasArgs(targetPort) THEN ":" \o targetPort[1].args[1] ELSE "")
        \o (IF HasArgs(targetPath) THEN targetPath[1].args[1] ELSE "")

\* the children parseDirectives deletes
ReservedKeys ==
    {Key("address", 0), Key("sourcepath", 0), Key("targetport", 0),
     Key("targetpath", 0), Key("targetprotocol", 0)}

\* parseDirectives, lines 505-541, for a group with an address: the children
\* with the proxy directive, whether getProxyTargets was called, and whether
\* it returned an error
parseProxy(directive, getProxyTargets) ==
    LET children == getOrCreateDirective(directive.children, <<Key("proxy", 0)>>, FALSE)
        proxyDirective == children[Key("proxy", 0)]
        sourcePath == Child(directive, "sourcepath")
    IN IF Len(proxyDirective.args) # 0
       THEN [err |-> FALSE, invoked |-> FALSE, children |-> children]
       ELSE IF getProxyTargets.err
       THEN [err |-> TRUE, invoked |-> TRUE, children |-> children]
       ELSE [err |-> FALSE, invoked |-> TRUE,
             children |-> [children EXCEPT ![Key("proxy", 0)] =
                 addArgs(addArgs(proxyDirective,
                                 <<IF HasArgs(sourcePath) THEN sourcePath[1].args[1]
                                   ELSE "/">>),
                         [i \in 1..Len(getProxyTargets.targets) |->
                             targetArg(getProxyTargets.targets[i],
                                       Child(directive, "targetprotocol"),
                                       Child(directive, "targetport"),
                                       Child(directive, "targetpath"))])]]

\* parseDirectives, lines 544-552: the reserved children deleted, the
\* arguments moved to the name
siteDirective(directive, children) ==
    Directive(Join(directive.args), <<>>,
              [k \in DOMAIN children \ ReservedKeys |-> children[k]])

\* the loop of parseDirectives over the groups of originalMap in `order`;
\* acc is [convertedMap, invoked, err], invoked the groups for which
\* getProxyTargets was called
RECURSIVE convertGroups(_, _, _, _)
convertGroups(originalMap, order, getProxyTargets, acc) ==
    IF order = <<>> THEN acc
    ELSE LET directive == originalMap[Head(order)]
             address == Child(directive, "address")
         IN IF HasArgs(address)
            THEN LET p == parseProxy(directive, getProxyTargets)
                     site == siteDirective([directive EXCEPT !.args = address[1].args],
                                           p.children)
                     invoked == IF p.invoked THEN acc.invoked \cup {Head(order)}
                                ELSE acc.invoked
                 IN IF p.err
                    THEN [convertedMap |-> NoChildren, invoked |-> invoked, err |-> TRUE]
                    ELSE convertGroups(originalMap, Tail(order), getProxyTargets,
                            [acc EXCEPT !.invoked = invoked,
                                        !.convertedMap =
                                            (Key(site.name, 0) :> site) @@ @])
            ELSE LET site == siteDirective(directive, directive.children)
                 IN convertGroups(originalMap, Tail(order), getProxyTargets,
                        [acc EXCEPT !.convertedMap = (Key(site.name, 0) :> site) @@ @])

\* parseDirectives: the results [convertedMap, invoked, err] it can return,
\* over the orders the ranges over the two maps can take
parseDirectives(labels, templateData, getProxyTargets) ==
    UNION {{convertGroups(originalMap, order, getProxyTargets,
                          [convertedMap |-> NoChildren, invoked |-> {}, err |-> FALSE]) :
                order \in Orders(DOMAIN originalMap)} :
           originalMap \in convertLabelsToDirectives(labels, templateData)}

\* ------------------------------------------------------------ the generator
\* a line of the diagnostic text: fmt.Sprintf("[ERROR] %v\n", err.Error()) and
\* the [INFO] lines
ErrorLine(what) == <<"[ERROR]", what>>

InfoLine(what) == <<"[INFO]", what>>

SkipSeedLine == InfoLine("Skipping default CaddyFile because no path is set")

SkipServicesLine == InfoLine("Skipping services because swarm is not available")

SkipConfigsLine == InfoLine("Skipping configs because swarm is not available")

\* CreateGenerator: the generator built from the options, nothing probed yet
\* (swarmIsAvailableTime is the zero time: time.Since of it exceeds any interval)
CreateGenerator(options) ==
    [caddyFilePath |-> options.caddyFilePath,
     ignoreSwarmError |-> options.ignoreSwarmError,
     validateNetwork |-> options.validateNetwork,
     caddyNetworks |-> FALSE,
     swarmIsAvailable |-> FALSE,
     swarmIsAvailableTimeIsZero |-> TRUE,
     sinceSwarmIsAvailableTime |-> swarmAvailabilityCacheInterval + 1]

\* a variant of checkSwarmAvailability that reports the swarm available
\* whatever Info answers
AlwaysAvailable(g, w) == [g EXCEPT !.swarmIsAvailable = TRUE]

\* checkSwarmAvailability: info.Swarm.LocalNodeState == active, false when
\* Info fails
checkSwarmAvailability(g, w) ==
    IF w.info # "error"
    THEN [g EXCEPT !.swarmIsAvailable = (w.info = "active")]
    ELSE [g EXCEPT !.swarmIsAvailable = FALSE]

\* checkSwarmAvailability: the lines it prints with log.Printf
SwarmIsAvailableLine(available) ==
    InfoLine(IF available THEN "Swarm is available: true" ELSE "Swarm is available: false")

SwarmCheckFailedLine == ErrorLine("Swarm availability check failed")

\* checkSwarmAvailability(isFirstCheck): what it prints
checkSwarmAvailabilityLog(g, w, isFirstCheck) ==
    IF w.info # "error"
    THEN IF isFirstCheck \/ (w.info = "active") # g.swarmIsAvailable
         THEN <<SwarmIsAvailableLine(w.info = "active")>>
         ELSE <<>>
    ELSE <<SwarmCheckFailedLine>>

\* directives[k] = mergeDirectives(directives[k], directive) for the keys k
\* of one resource's directives: the set of maps `directives` can become
RECURSIVE mergeResource(_, _, _)
mergeResource(directives, resourceDirectives, keys) ==
    IF keys = {} THEN {directives}
    ELSE LET k == CHOOSE x \in keys : TRUE
             old == IF k \in DOMAIN directives THEN <<directives[k]>> ELSE <<>>
         IN UNION {mergeResource((k :> m[1]) @@ directives, resourceDirectives,
                                 keys \ {k}) :
                   m \in mergeDirectives(old, <<resourceDirectives[k]>>)}

\* a variant of foldResources that leaves the loop at the first resource
\* whose directives cannot be computed
RECURSIVE foldResourcesUntilFailure(_, _, _)
foldResourcesUntilFailure(acc, resources, abort) ==
    IF resources = <<>> \/ acc.err # "" THEN {acc}
    ELSE LET r == Head(resources) IN
         IF r.err
         THEN {[acc EXCEPT !.logs = Append(@, ErrorLine(r.id)), !.err = abort]}
         ELSE UNION {foldResourcesUntilFailure([acc EXCEPT !.directives = d],
                                               Tail(resources), abort) :
                     d \in mergeResource(acc.directives, r.directives,
                                         DOMAIN r.directives)}

\* the loop over the listed containers (abort = "") or services (abort = the
\* error returned in strict mode): acc is [buf, directives, logs, err]
RECURSIVE foldResources(_, _, _)
foldResources(acc, resources, abort) ==
    IF resources = <<>> \/ acc.err # "" THEN {acc}
    ELSE LET r == Head(resources) IN
         IF r.err
         THEN foldResources([acc EXCEPT !.logs = Append(@, ErrorLine(r.id)),
                                        !.err = abort],
                            Tail(resources), abort)
         ELSE UNION {foldResources([acc EXCEPT !.directives = d], Tail(resources), abort) :
                     d \in mergeResource(acc.directives, r.directives,
                                         DOMAIN r.directives)}

\* the loop over the listed config objects
RECURSIVE foldConfigs(_, _, _)
foldConfigs(acc, configs, abort) ==
    IF configs = <<>> \/ acc.err # "" THEN acc
    ELSE LET c == Head(configs) IN
         IF ~c.hasLabel THEN foldConfigs(acc, Tail(configs), abort)
         ELSE IF c.inspectErr
         THEN foldConfigs([acc EXCEPT !.logs = Append(@, ErrorLine(c.id)),
                                      !.err = abort],
                          Tail(configs), abort)
         ELSE foldConfigs([acc EXCEPT !.buf = @ \o c.data], Tail(configs), abort)

\* a variant of WhenStrict in which the strict flag has no effect
NeverStrict(g, message) == ""

\* the error a failure returns: nil unless ignoreSwarmError is set
WhenStrict(g, message) == IF g.ignoreSwarmError THEN message ELSE ""

\* the part of GenerateCaddyFile that lists containers
generateContainers(g, w, acc) ==
    IF ~w.containerListErr
    THEN foldResources(acc, w.containers, "")
    ELSE {[acc EXCEPT !.logs = Append(@, ErrorLine("ContainerList"))]}

\* the part of GenerateCaddyFile that lists services
generateServices(g, w, acc) ==
    IF acc.err # "" THEN {acc}
    ELSE IF g.swarmIsAvailable
    THEN IF ~w.serviceListErr
         THEN foldResources(acc, w.services,
                            WhenStrict(g, "swarm is unavailable for getServiceDirectives"))
         ELSE {[acc EXCEPT !.logs = Append(@, ErrorLine("ServiceList")),
                           !.err = WhenStrict(g, "swarm is unavailable for ServiceList")]}
    ELSE {[acc EXCEPT !.logs = Append(@, SkipServicesLine)]}

\* the part of GenerateCaddyFile that lists config objects
generateConfigs(g, w, acc) ==
    IF acc.err # "" THEN acc
    ELSE IF g.swarmIsAvailable
    THEN IF ~w.configListErr
         THEN foldConfigs(acc, w.configs,
                          WhenStrict(g, "swarm is unavailable for ConfigInspectWithRaw"))
         ELSE [acc EXCEPT !.logs = Append(@, ErrorLine("ConfigList")),
                          !.err = WhenStrict(g, "swarm is unavailable for ConfigList")]
    ELSE [acc EXCEPT !.logs = Append(@, SkipConfigsLine)]

\* GenerateCaddyFile: the set of results [caddyfile, logs, err, g], g the
\* generator after the call; err = "" is a nil error
GenerateCaddyFile(g0, w) ==
    LET lookup == g0.validateNetwork /\ ~g0.caddyNetworks
        g1 == IF lookup /\ ~w.networksErr THEN [g0 EXCEPT !.caddyNetworks = TRUE] ELSE g0
        logs1 == IF lookup /\ w.networksErr THEN <<ErrorLine("getCaddyNetworks")>> ELSE <<>>
        g == IF g1.sinceSwarmIsAvailableTime > swarmAvailabilityCacheInterval
             THEN [checkSwarmAvailability(g1, w) EXCEPT
                      !.swarmIsAvailableTimeIsZero = FALSE,
                      !.sinceSwarmIsAvailableTime = 0]
             ELSE g1
    IN IF g.ignoreSwarmError /\ ~g.swarmIsAvailable
       THEN {[caddyfile |-> <<>>, logs |-> logs1, err |-> "swarm is unavailable", g |-> g]}
       ELSE LET acc0 ==
                    [buf |-> IF g.caddyFilePath /\ ~w.seedErr THEN w.seed ELSE <<>>,
                     directives |-> NoChildren,
                     logs |-> logs1 \o (IF ~g.caddyFilePath THEN <<SkipSeedLine>>
                                        ELSE IF w.seedErr THEN <<ErrorLine("ReadFile")>>
                                        ELSE <<>>),
                     err |-> ""]
                ends == {generateConfigs(g, w, a2) :
                            a2 \in UNION {generateServices(g, w, a1) :
                                             a1 \in generateContainers(g, w, acc0)}}
            IN {IF a.err # ""
                THEN [caddyfile |-> <<>>, logs |-> a.logs, err |-> a.err, g |-> g]
                ELSE [caddyfile |-> a.buf \o writeDirectives(a.directives, 0),
                      logs |-> a.logs, err |-> "", g |-> g] : a \in ends}

\* ------------------------------------------------- the orchestrator's state
\* what getContainerDirectives / getServiceDirectives return for a resource:
\* its directives by name (parseDirectives' convertedMap), or an error
Resource(id, directives) == [id |-> id, err |-> FALSE, directives |-> directives]

FailingResource(id) == [id |-> id, err |-> TRUE, directives |-> NoChildren]

\* a site block as parseDirectives leaves it: named by its address, no args
Site(address, children) ==
    (Key(address, 0) :> Directive(address, <<>>, children))

Proxy(target) == (Key("proxy", 0) :> Leaf("proxy", <<"/", target>>))

Tls(sfx, arg) == (Key("tls", sfx) :> Leaf("tls", <<arg>>))

Container1 == Resource("container1", Site("a.com", Proxy("10.0.0.1")))

Container2 == Resource("container2", Site("a.com", Proxy("10.0.0.2") @@ Tls(0, "internal")))

Container3 == Resource("container3", Site("b.com", Tls(0, "off")))

\* two containers that each declare tls and tls_1 under a.com, all different
Container4 == Resource("container4", Site("a.com", Tls(0, "w") @@ Tls(1, "x")))

Container5 == Resource("container5", Site("a.com", Tls(0, "y") @@ Tls(1, "z")))

ContainerBad == FailingResource("containerBad")

Service1 == Resource("service1", Site("a.com", Proxy("service1") @@ Tls(0, "service1.pem")))

ServiceBad == FailingResource("serviceBad")

\* a config object: labelled with the prefix or not, its data, inspect failing or not
Config(id, hasLabel, inspectErr) ==
    [id |-> id, hasLabel |-> hasLabel, inspectErr |-> inspectErr,
     data |-> <<Line(0, <<"config", id>>)>>]

Config1 == Config("config1", TRUE, FALSE)

ConfigBad == Config("configBad", TRUE, TRUE)

ConfigUnlabelled == Config("config2", FALSE, FALSE)

\* the content of the file at caddyFilePath
SeedText == <<Line(0, <<"seed.com">>)>>

ContainerLists ==
    {<<>>, <<Container1, Container2>>, <<Container2, ContainerBad, Container3>>,
     <<Container4, Container5>>}

ServiceLists == {<<>>, <<Service1>>, <<ServiceBad, Service1>>}

ConfigLists == {<<>>, <<Config1, ConfigUnlabelled>>, <<ConfigBad, Config1>>}

\* the words only a service's directives or a config object's data carry
ServiceWords == {"service1", "service1.pem"}

ConfigWords == {"config"}

\* every answer the docker client can give to one cycle
GenWorlds ==
    [info : {"active", "inactive", "error"},
     networksErr : BOOLEAN,
     seedErr : BOOLEAN,
     seed : {SeedText},
     containerListErr : BOOLEAN,
     containers : ContainerLists,
     serviceListErr : BOOLEAN,
     services : ServiceLists,
     configListErr : BOOLEAN,
     configs : ConfigLists]

\* GetGeneratorOptions: every setting of the flags (caddyFilePath: set or not)
GeneratorOptions ==
    [caddyFilePath : BOOLEAN, ignoreSwarmError : BOOLEAN, validateNetwork : BOOLEAN]

NoOutcome == [how |-> "none", logged |-> FALSE, reloaded |-> FALSE]

NoGenOut == [called |-> FALSE, caddyfile |-> <<>>, logs |-> <<>>, err |-> ""]

NoCall == [fn |-> "none"]

\* CreateDockerLoader: the loader before Load
NoTimer == [armed |-> FALSE, left |-> 0, by |-> "none"]

NoUpdate ==
    [pc |-> "idle", reloadIfChanged |-> FALSE, by |-> "none",
     caddyfile |-> <<>>, logs |-> <<>>]

LoaderInit ==
    /\ initialized = FALSE
    /\ timer = NoTimer
    /\ skipEvents = FALSE
    /\ input = <<>>
    /\ processCaddyfile = FALSE
    /\ previousCaddyfile = <<>>
    /\ previousLogs = <<>>
    /\ updates = [t \in 1..MaxUpdates |-> NoUpdate]
    /\ monitor = "none"
    /\ lastOutcome = NoOutcome
    /\ sinceStart = pollingInterval
    /\ lastRejected = <<>>
    /\ call = NoCall

\* ------------------------------------- GenerateCaddyFile called on its own
GenInit ==
    /\ LoaderInit
    /\ worlds \in {{w} : w \in GenWorlds}
    /\ generator \in {CreateGenerator(o) : o \in GeneratorOptions}
    /\ genOut = NoGenOut

\* one call of GenerateCaddyFile
GenCall ==
    /\ \E w \in worlds : \E r \in GenerateCaddyFile(generator, w) :
        /\ generator' = r.g
        /\ genOut' = [called |-> TRUE, caddyfile |-> r.caddyfile,
                      logs |-> r.logs, err |-> r.err]
    /\ UNCHANGED <<worlds, loaderVars>>

\* time passes between two calls
GenTick ==
    /\ genOut.called
    /\ generator.sinceSwarmIsAvailableTime <= swarmAvailabilityCacheInterval
    /\ generator' = [generator EXCEPT !.sinceSwarmIsAvailableTime = @ + 1]
    /\ UNCHANGED <<worlds, genOut, loaderVars>>

GenNext == GenCall \/ GenTick

SpecGen == GenInit /\ [][GenNext]_vars

\* ------------------------------------------------ the reconciliation loop
LoopWorld(info, containers) ==
    [info |-> info, networksErr |-> FALSE, seedErr |-> FALSE, seed |-> SeedText,
     containerListErr |-> FALSE, containers |-> containers,
     serviceListErr |-> FALSE, services |-> <<>>,
     configListErr |-> FALSE, configs |-> <<>>]

\* the states the orchestrator moves between while the loop runs
LoopWorlds ==
    {LoopWorld("active", <<>>), LoopWorld("active", <<Container1>>),
     LoopWorld("inactive", <<Container1>>)}

\* the flag settings the loop is run with: the defaults, strict mode,
\* docker-process-caddyfile
LoopOption(ignoreSwarmError, process) ==
    [generator |-> [caddyFilePath |-> FALSE, ignoreSwarmError |-> ignoreSwarmError,
                    validateNetwork |-> FALSE],
     processCaddyfile |-> process]

LoopOptions ==
    {LoopOption(FALSE, FALSE), LoopOption(TRUE, FALSE), LoopOption(FALSE, TRUE)}

\* a variant of PollTimer that expires after the debounce delay
ShortPollTimer == [armed |-> TRUE, left |-> debounceInterval, by |-> "poll"]

\* the timer after timer.Reset(pollingInterval)
PollTimer == [armed |-> TRUE, left |-> pollingInterval, by |-> "poll"]

\* the timer after timer.Reset(100 * time.Millisecond)
DebounceTimer == [armed |-> TRUE, left |-> debounceInterval, by |-> "event"]

EmptyCaddyfile == <<Line(0, <<"#", "Empty", "caddyfile">>)>>

\* ProcessCaddyfile (not in loader.go): removes invalid servers; the results
\* it can give: nothing removed, or every server removed
ProcessCaddyfile(caddyfile) == {caddyfile, <<>>}

InProgress == {t \in 1..MaxUpdates : updates[t].pc # "idle"}

\* statements that take no time; the other positions wait for an answer
Local(t) == updates[t].pc \in {"reset", "clear", "diff"}

\* how a cycle ended: aborted, unchanged, applied or rejected; whether it
\* passed its text to log.Print; whether it called ReloadCaddy
Outcome(how, logged, reloaded) == [how |-> how, logged |-> logged, reloaded |-> reloaded]

\* update returns; Load's own call goes on to start monitorEvents
Return(t, outcome) ==
    /\ updates' = [updates EXCEPT ![t] = NoUpdate]
    /\ lastOutcome' = outcome
    /\ monitor' = IF updates[t].by = "load" THEN "wait" ELSE monitor

\* Load("http"), first call, docker reachable: lines 52-95 up to the call of
\* update(false)
Load ==
    /\ lastOutcome' = NoOutcome
    /\ ~initialized
    /\ initialized' = TRUE
    /\ \E o \in LoopOptions :
        /\ generator' = CreateGenerator(o.generator)
        /\ processCaddyfile' = o.processCaddyfile
    /\ timer' = PollTimer
    /\ updates' = [updates EXCEPT ![1] =
                      [NoUpdate EXCEPT !.pc = "reset", !.by = "load"]]
    /\ UNCHANGED <<skipEvents, input, previousCaddyfile, previousLogs, worlds,
                   monitor, genOut, call, sinceStart, lastRejected>>

\* Load("http"), first call, NewEnvClient or Ping fails: nothing is started
LoadFails ==
    /\ lastOutcome' = NoOutcome
    /\ ~initialized
    /\ initialized' = TRUE
    /\ UNCHANGED <<timer, skipEvents, input, processCaddyfile, previousCaddyfile,
                   previousLogs, generator, worlds, updates, monitor, genOut, call, sinceStart,
                   lastRejected>>

\* a variant of UpdateReset that leaves the timer as it is
UpdateResetNoArm(t) ==
    /\ lastOutcome' = NoOutcome
    /\ updates[t].pc = "reset"
    /\ sinceStart' = 0
    /\ updates' = [updates EXCEPT ![t].pc = "clear"]
    /\ UNCHANGED <<initialized, timer, skipEvents, input, processCaddyfile,
                   previousCaddyfile, previousLogs, generator, worlds, monitor,
                   genOut, call, lastRejected>>

\* update, line 156: dockerLoader.timer.Reset(pollingInterval)
UpdateReset(t) ==
    /\ lastOutcome' = NoOutcome
    /\ updates[t].pc = "reset"
    /\ timer' = PollTimer
    /\ sinceStart' = 0
    /\ updates' = [updates EXCEPT ![t].pc = "clear"]
    /\ UNCHANGED <<initialized, skipEvents, input, processCaddyfile,
                   previousCaddyfile, previousLogs, generator, worlds, monitor,
                   genOut, call, lastRejected>>

\* a variant of UpdateClear that leaves skipEvents as it is
UpdateClearKeep(t) ==
    /\ lastOutcome' = NoOutcome
    /\ updates[t].pc = "clear"
    /\ updates' = [updates EXCEPT ![t].pc = "gen"]
    /\ UNCHANGED <<initialized, timer, skipEvents, input, processCaddyfile,
                   previousCaddyfile, previousLogs, generator, worlds, monitor,
                   genOut, call, sinceStart,
                   lastRejected>>

\* update, line 157: dockerLoader.skipEvents = false
UpdateClear(t) ==
    /\ lastOutcome' = NoOutcome
    /\ updates[t].pc = "clear"
    /\ skipEvents' = FALSE
    /\ updates' = [updates EXCEPT ![t].pc = "gen"]
    /\ UNCHANGED <<initialized, timer, input, processCaddyfile,
                   previousCaddyfile, previousLogs, generator, worlds, monitor,
                   genOut, call, sinceStart,
                   lastRejected>>

\* a variant of UpdateGenerate that installs the empty document when
\* GenerateCaddyFile returns an error
UpdateGenerateApplying(t) ==
    /\ updates[t].pc = "gen"
    /\ \E w \in worlds : \E r \in GenerateCaddyFile(generator, w) :
        /\ generator' = r.g
        /\ IF r.err # ""
           THEN /\ Return(t, Outcome("aborted", FALSE, FALSE))
                /\ input' = EmptyCaddyfile
           ELSE /\ updates' = [updates EXCEPT ![t] =
                       [@ EXCEPT !.pc = "diff", !.caddyfile = r.caddyfile,
                                 !.logs = r.logs]]
                /\ UNCHANGED <<monitor, input>> /\ lastOutcome' = NoOutcome
    /\ UNCHANGED <<initialized, timer, skipEvents, processCaddyfile,
                   previousCaddyfile, previousLogs, worlds, genOut, call, sinceStart, lastRejected>>

\* update, lines 159-165: GenerateCaddyFile runs against the orchestrator as
\* it is now (any of worlds) and returns; an error ends the cycle
UpdateGenerate(t) ==
    /\ updates[t].pc = "gen"
    /\ \E w \in worlds : \E r \in GenerateCaddyFile(generator, w) :
        /\ generator' = r.g
        /\ IF r.err # ""
           THEN Return(t, Outcome("aborted", FALSE, FALSE))
           ELSE /\ updates' = [updates EXCEPT ![t] =
                       [@ EXCEPT !.pc = "diff", !.caddyfile = r.caddyfile,
                                 !.logs = r.logs]]
                /\ UNCHANGED monitor /\ lastOutcome' = NoOutcome
    /\ UNCHANGED <<initialized, timer, skipEvents, input, processCaddyfile,
                   previousCaddyfile, previousLogs, worlds, genOut, call, sinceStart, lastRejected>>

\* a variant of UpdateDiff that does not store the new bytes
UpdateDiffNoStore(t) ==
    /\ updates[t].pc = "diff"
    /\ LET caddyfileChanged == previousCaddyfile # updates[t].caddyfile
           logsChanged == previousLogs # updates[t].logs
       IN /\ previousLogs' = updates[t].logs
          /\ IF ~caddyfileChanged
             THEN Return(t, Outcome("unchanged", logsChanged, FALSE))
             ELSE /\ updates' = [updates EXCEPT ![t] =
                         [@ EXCEPT !.pc = "validate", !.logs = <<>>]]
                  /\ UNCHANGED monitor /\ lastOutcome' = NoOutcome
    /\ UNCHANGED <<initialized, timer, skipEvents, input, processCaddyfile,
                   previousCaddyfile, generator, worlds, genOut, call, sinceStart,
                   lastRejected>>

\* a variant of UpdateDiff that goes on to validate when only the
\* diagnostic text changed
UpdateDiffOnAnyChange(t) ==
    /\ updates[t].pc = "diff"
    /\ LET caddyfileChanged == previousCaddyfile # updates[t].caddyfile
           logsChanged == previousLogs # updates[t].logs
       IN /\ previousCaddyfile' = updates[t].caddyfile
          /\ previousLogs' = updates[t].logs
          /\ IF ~caddyfileChanged /\ ~logsChanged
             THEN Return(t, Outcome("unchanged", logsChanged, FALSE))
             ELSE /\ updates' = [updates EXCEPT ![t] =
                         [@ EXCEPT !.pc = "validate", !.logs = <<>>]]
                  /\ UNCHANGED monitor /\ lastOutcome' = NoOutcome
    /\ UNCHANGED <<initialized, timer, skipEvents, input, processCaddyfile,
                   generator, worlds, genOut, call, sinceStart, lastRejected>>

\* update, lines 167-178: compare the new bytes and text with the previous
\* ones, store them, log the text if either changed, return if the bytes
\* did not change
UpdateDiff(t) ==
    /\ updates[t].pc = "diff"
    /\ LET caddyfileChanged == previousCaddyfile # updates[t].caddyfile
           logsChanged == previousLogs # updates[t].logs
       IN /\ previousCaddyfile' = updates[t].caddyfile
          /\ previousLogs' = updates[t].logs
          /\ IF ~caddyfileChanged
             THEN Return(t, Outcome("unchanged", logsChanged, FALSE))
             ELSE /\ updates' = [updates EXCEPT ![t] =
                         [@ EXCEPT !.pc = "validate", !.logs = <<>>]]
                  /\ UNCHANGED monitor /\ lastOutcome' = NoOutcome
    /\ UNCHANGED <<initialized, timer, skipEvents, input, processCaddyfile,
                   generator, worlds, genOut, call, sinceStart, lastRejected>>

\* update, lines 180-207: process, replace an empty document, validate, and
\* on success set the input and reload
UpdateValidate(t) ==
    /\ updates[t].pc = "validate"
    /\ \E processed \in (IF processCaddyfile THEN ProcessCaddyfile(updates[t].caddyfile)
                         ELSE {updates[t].caddyfile}) :
       LET caddyfile == IF Len(processed) = 0 THEN EmptyCaddyfile ELSE processed IN
       \E valid \in BOOLEAN :
          IF valid
          THEN /\ input' = caddyfile
               /\ Return(t, Outcome("applied", TRUE, updates[t].reloadIfChanged))
               /\ UNCHANGED lastRejected
          ELSE /\ Return(t, Outcome("rejected", TRUE, FALSE))
               /\ lastRejected' = <<updates[t].caddyfile>>
               /\ UNCHANGED input
    /\ UNCHANGED <<initialized, timer, skipEvents, processCaddyfile,
                   previousCaddyfile, previousLogs, generator, worlds, genOut, call,
                   sinceStart>>

\* the timer's function: time.AfterFunc runs update(true) in a new goroutine
TimerFire ==
    /\ lastOutcome' = NoOutcome
    /\ timer.armed /\ timer.left = 0
    /\ \E t \in 1..MaxUpdates :
        /\ updates[t].pc = "idle"
        /\ \A u \in 1..(t - 1) : updates[u].pc # "idle"
        /\ updates' = [updates EXCEPT ![t] =
               [NoUpdate EXCEPT !.pc = "reset", !.reloadIfChanged = TRUE,
                                !.by = timer.by]]
    /\ timer' = NoTimer
    /\ UNCHANGED <<initialized, skipEvents, input, processCaddyfile,
                   previousCaddyfile, previousLogs, generator, worlds, monitor,
                   genOut, call, sinceStart,
                   lastRejected>>

\* monitorEvents, lines 120-135: an event is received, skipEvents is read
MonitorEvent ==
    /\ lastOutcome' = NoOutcome
    /\ monitor = "wait"
    /\ \E update \in BOOLEAN :
        monitor' = IF ~skipEvents /\ update THEN "mark" ELSE "wait"
    /\ UNCHANGED <<initialized, timer, skipEvents, input, processCaddyfile,
                   previousCaddyfile, previousLogs, generator, worlds, updates,
                   genOut, call, sinceStart,
                   lastRejected>>

\* monitorEvents, line 137: dockerLoader.skipEvents = true
MonitorMark ==
    /\ lastOutcome' = NoOutcome
    /\ monitor = "mark"
    /\ skipEvents' = TRUE
    /\ monitor' = "arm"
    /\ UNCHANGED <<initialized, timer, input, processCaddyfile,
                   previousCaddyfile, previousLogs, generator, worlds, updates,
                   genOut, call, sinceStart,
                   lastRejected>>

\* monitorEvents, line 138: dockerLoader.timer.Reset(100 * time.Millisecond)
MonitorArm ==
    /\ lastOutcome' = NoOutcome
    /\ monitor = "arm"
    /\ timer' = DebounceTimer
    /\ monitor' = "wait"
    /\ UNCHANGED <<initialized, skipEvents, input, processCaddyfile,
                   previousCaddyfile, previousLogs, generator, worlds, updates,
                   genOut, call, sinceStart,
                   lastRejected>>

\* monitorEvents, lines 140-146: the error channel yields nil (the
\* subscription ended): cancel and leave the loop
MonitorEnd ==
    /\ lastOutcome' = NoOutcome
    /\ monitor = "wait"
    /\ monitor' = "stopped"
    /\ UNCHANGED <<initialized, timer, skipEvents, input, processCaddyfile,
                   previousCaddyfile, previousLogs, generator, worlds, updates,
                   genOut, call, sinceStart,
                   lastRejected>>

\* one tick passes: no goroutine is at a local statement and the timer has
\* not expired
Tick ==
    /\ lastOutcome' = NoOutcome
    /\ timer.armed /\ timer.left > 0
    /\ \A t \in 1..MaxUpdates : ~Local(t)
    /\ monitor \notin {"mark", "arm"}
    /\ timer' = [timer EXCEPT !.left = @ - 1]
    /\ sinceStart' = IF sinceStart < pollingInterval THEN sinceStart + 1 ELSE sinceStart
    /\ generator' = [generator EXCEPT !.sinceSwarmIsAvailableTime =
            IF @ <= swarmAvailabilityCacheInterval THEN @ + 1 ELSE @]
    /\ UNCHANGED <<initialized, skipEvents, input, processCaddyfile,
                   previousCaddyfile, previousLogs, worlds, updates, monitor,
                   genOut, call, lastRejected>>

LoopInit(environment) ==
    /\ LoaderInit
    /\ worlds = environment
    /\ generator = CreateGenerator([caddyFilePath |-> FALSE,
                                    ignoreSwarmError |-> FALSE,
                                    validateNetwork |-> TRUE])
    /\ genOut = NoGenOut

Init == LoopInit(LoopWorlds)

Next ==
    \/ Load
    \/ LoadFails
    \/ \E t \in 1..MaxUpdates :
        \/ UpdateReset(t)
        \/ UpdateClear(t)
        \/ UpdateGenerate(t)
        \/ UpdateDiff(t)
        \/ UpdateValidate(t)
    \/ TimerFire
    \/ MonitorEvent
    \/ MonitorMark
    \/ MonitorArm
    \/ MonitorEnd
    \/ Tick

Spec == Init /\ [][Next]_vars

\* the loop while the orchestrator's state does not change: two containers
\* that declare conflicting directives under one address
SameWorld == LoopWorld("active", <<Container4, Container5>>)

SameInit == LoopInit({SameWorld})

\* the loop driven by Load and the poll timer alone (no event arrives)
NextSame ==
    \/ Load
    \/ \E t \in 1..MaxUpdates :
        \/ UpdateReset(t)
        \/ UpdateClear(t)
        \/ UpdateGenerate(t)
        \/ UpdateDiff(t)
        \/ UpdateValidate(t)
    \/ TimerFire
    \/ Tick

SpecSame == SameInit /\ [][NextSame]_vars

\* the loop with a swarm that is not available, every goroutine that can
\* take a step eventually taking it, the orchestrator and the validator
\* eventually answering, and time passing
LiveInit == LoopInit({LoopWorld("inactive", <<Container1>>)})

Fairness ==
    /\ \A t \in 1..MaxUpdates :
        /\ WF_vars(UpdateReset(t))
        /\ WF_vars(UpdateClear(t))
        /\ WF_vars(UpdateGenerate(t))
        /\ WF_vars(UpdateDiff(t))
        /\ WF_vars(UpdateValidate(t))
    /\ WF_vars(TimerFire)
    /\ WF_vars(MonitorMark)
    /\ WF_vars(MonitorArm)
    /\ WF_vars(Tick)

LiveSpec == LiveInit /\ [][Next]_vars /\ Fairness

\* --------------- the availability cache of GenerateCaddyFile, step by step
\* the executions of update call GenerateCaddyFile on the one generator
\* without a lock; only lines 349-352 of each call are followed here
ProbeWorlds ==
    {LoopWorld("active", <<>>), LoopWorld("inactive", <<>>), LoopWorld("error", <<>>)}

ProbeInit ==
    /\ LoaderInit
    /\ worlds = ProbeWorlds
    /\ generator \in {CreateGenerator(o) : o \in GeneratorOptions}
    /\ genOut = NoGenOut

\* update, line 159: an execution of update enters GenerateCaddyFile
CycleEnter(t) ==
    /\ updates[t].pc = "idle"
    /\ updates' = [updates EXCEPT ![t].pc = "since"]
    /\ UNCHANGED <<initialized, timer, skipEvents, input, processCaddyfile,
                   previousCaddyfile, previousLogs, generator, worlds, monitor,
                   genOut, lastOutcome, sinceStart, lastRejected, call>>

\* line 349: time.Since(g.swarmIsAvailableTime) > swarmAvailabilityCacheInterval
CycleSince(t) ==
    /\ updates[t].pc = "since"
    /\ updates' = [updates EXCEPT ![t].pc =
                      IF generator.sinceSwarmIsAvailableTime > swarmAvailabilityCacheInterval
                      THEN "check" ELSE "cached"]
    /\ UNCHANGED <<initialized, timer, skipEvents, input, processCaddyfile,
                   previousCaddyfile, previousLogs, generator, worlds, monitor,
                   genOut, lastOutcome, sinceStart, lastRejected, call>>

\* line 350: g.checkSwarmAvailability(time.Time.IsZero(g.swarmIsAvailableTime));
\* call records the probe: the time since the probe before it, what the
\* cache held, what Info answered, what was printed
CycleCheck(t) ==
    /\ updates[t].pc = "check"
    /\ \E w \in worlds :
        /\ generator' = checkSwarmAvailability(generator, w)
        /\ call' = [fn |-> "checkSwarmAvailability",
                    sincePrevious |-> IF call.fn = "none"
                                      THEN swarmAvailabilityCacheInterval + 1
                                      ELSE call.since,
                    since |-> 0,
                    isFirstCheck |-> generator.swarmIsAvailableTimeIsZero,
                    cached |-> generator.swarmIsAvailable,
                    info |-> w.info,
                    log |-> checkSwarmAvailabilityLog(generator, w,
                                generator.swarmIsAvailableTimeIsZero)]
    /\ updates' = [updates EXCEPT ![t].pc = "stamp"]
    /\ UNCHANGED <<initialized, timer, skipEvents, input, processCaddyfile,
                   previousCaddyfile, previousLogs, worlds, monitor,
                   genOut, lastOutcome, sinceStart, lastRejected>>

\* line 351: g.swarmIsAvailableTime = time.Now()
CycleStamp(t) ==
    /\ updates[t].pc = "stamp"
    /\ generator' = [generator EXCEPT !.swarmIsAvailableTimeIsZero = FALSE,
                                      !.sinceSwarmIsAvailableTime = 0]
    /\ updates' = [updates EXCEPT ![t].pc = "cached"]
    /\ UNCHANGED <<initialized, timer, skipEvents, input, processCaddyfile,
                   previousCaddyfile, previousLogs, worlds, monitor,
                   genOut, lastOutcome, sinceStart, lastRejected, call>>

\* lines 354-450: the rest of the call, with the cached state
CycleLeave(t) ==
    /\ updates[t].pc = "cached"
    /\ updates' = [updates EXCEPT ![t].pc = "idle"]
    /\ UNCHANGED <<initialized, timer, skipEvents, input, processCaddyfile,
                   previousCaddyfile, previousLogs, generator, worlds, monitor,
                   genOut, lastOutcome, sinceStart, lastRejected, call>>

\* time passes
ProbeTick ==
    /\ \/ generator.sinceSwarmIsAvailableTime <= swarmAvailabilityCacheInterval
       \/ call.fn # "none" /\ call.since <= swarmAvailabilityCacheInterval
    /\ generator' =
          IF generator.sinceSwarmIsAvailableTime <= swarmAvailabilityCacheInterval
          THEN [generator EXCEPT !.sinceSwarmIsAvailableTime = @ + 1]
          ELSE generator
    /\ call' = IF call.fn # "none" /\ call.since <= swarmAvailabilityCacheInterval
               THEN [call EXCEPT !.since = @ + 1]
               ELSE call
    /\ UNCHANGED <<initialized, timer, skipEvents, input, processCaddyfile,
                   previousCaddyfile, previousLogs, worlds, updates, monitor,
                   genOut, lastOutcome, sinceStart, lastRejected>>

ProbeNext(callers) ==
    \/ \E t \in callers :
        \/ CycleEnter(t)
        \/ CycleSince(t)
        \/ CycleCheck(t)
        \/ CycleStamp(t)
        \/ CycleLeave(t)
    \/ ProbeTick

\* the calls of any two executions of update interleaved
SpecProbe == ProbeInit /\ [][ProbeNext(1..MaxUpdates)]_vars

\* the calls one after the other
SpecProbeSeq == ProbeInit /\ [][ProbeNext({1})]_vars

\* ------------------------------------------- mergeDirectives called on its own
\* the children a tree can hold under each key: three tls leaves that differ
\* pairwise, two under tls_1, and proxy leaves with the same path, another
\* path, and no argument
MergeKeys == {Key("tls", 0), Key("tls", 1), Key("proxy", 0)}

MergeLeaves(key) ==
    IF key = Key("tls", 0)
    THEN {Leaf("tls", <<"w">>), Leaf("tls", <<"y">>), Leaf("tls", <<"z">>)}
    ELSE IF key = Key("tls", 1)
    THEN {Leaf("tls", <<"x">>), Leaf("tls", <<"z">>)}
    ELSE {Leaf("proxy", <<"/", "10.0.0.1">>), Leaf("proxy", <<"/", "10.0.0.2">>),
          Leaf("proxy", <<"/api", "10.0.0.3">>), Leaf("proxy", <<>>)}

MergeChildren(keys) ==
    {children \in [keys -> UNION {MergeLeaves(k) : k \in keys}] :
        \A k \in keys : children[k] \in MergeLeaves(k)}

\* the directives of one resource for one site
MergeTrees ==
    UNION {{Directive("a.com", <<>>, children) : children \in MergeChildren(keys)} :
           keys \in SUBSET MergeKeys}

\* directiveA before any merge
MergeInit ==
    /\ LoaderInit
    /\ worlds = {}
    /\ generator = CreateGenerator([caddyFilePath |-> FALSE, ignoreSwarmError |-> FALSE,
                                    validateNetwork |-> FALSE])
    /\ genOut = NoGenOut

\* directives[k] = mergeDirectives(directives[k], directive): the tree of the
\* next resource is merged into the tree held so far; call records directiveA
\* before the call, directiveB and the result
Merge ==
    /\ \/ call.fn = "none"
       \/ call.fn = "mergeDirectives" /\ call.merges < MaxMerges
    /\ \E directiveA \in (IF call.fn = "none" THEN MergeTrees ELSE {call.result}) :
       \E directiveB \in MergeTrees :
       \E r \in mergeDirectives(<<directiveA>>, <<directiveB>>) :
           call' = [fn |-> "mergeDirectives",
                    merges |-> IF call.fn = "none" THEN 1 ELSE call.merges + 1,
                    directiveA |-> directiveA,
                    directiveB |-> directiveB,
                    result |-> r[1]]
    /\ UNCHANGED <<initialized, timer, skipEvents, input, processCaddyfile,
                   previousCaddyfile, previousLogs, generator, worlds, updates,
                   monitor, genOut, lastOutcome, sinceStart, lastRejected>>

SpecMerge == MergeInit /\ [][Merge]_vars

\* ------------------------------------------- parseDirectives called on its own
\* a label of the group caddy_<sfx> (caddy for 0), `path` the keys under it
GroupLabel(sfx, path, value) == Label(<<Key(labelPrefix, sfx)>> \o path, value)

AddressLabels ==
    {GroupLabel(0, <<Key("address", 0)>>, <<"a.com">>),
     GroupLabel(0, <<Key("address", 0)>>, <<"a.com", " ", "b.com">>)}

\* the labels that shape the proxy targets
TargetLabels ==
    {GroupLabel(0, <<Key("sourcepath", 0)>>, <<"/api">>),
     GroupLabel(0, <<Key("targetport", 0)>>, <<"8080">>),
     GroupLabel(0, <<Key("targetpath", 0)>>, <<"/v1">>),
     GroupLabel(0, <<Key("targetprotocol", 0)>>, <<"https">>)}

\* no proxy label, a proxy label with arguments, a proxy declared only
\* through a label under it
ProxyLabels ==
    {{},
     {GroupLabel(0, <<Key("proxy", 0)>>, <<"/", " ", "10.0.0.9">>)},
     {GroupLabel(0, <<Key("proxy", 0), Key("websocket", 0)>>, <<>>)}}

\* the label sets with the one group caddy
OneGroupLabelSets ==
    {{address} \cup targets \cup proxy :
        address \in AddressLabels, targets \in SUBSET TargetLabels, proxy \in ProxyLabels}

\* the label sets with two groups: the same address with different
\* directives, the same address with different source paths, different
\* addresses, a group without address, a label with another prefix
TwoGroupLabelSets ==
    {{GroupLabel(0, <<Key("address", 0)>>, <<"a.com">>),
      GroupLabel(0, <<Key("tls", 0)>>, <<"x">>),
      GroupLabel(1, <<Key("address", 0)>>, <<"a.com">>),
      GroupLabel(1, <<Key("tls", 0)>>, <<"y">>)},
     {GroupLabel(0, <<Key("address", 0)>>, <<"a.com">>),
      GroupLabel(0, <<Key("sourcepath", 0)>>, <<"/api">>),
      GroupLabel(1, <<Key("address", 0)>>, <<"a.com">>),
      GroupLabel(1, <<Key("sourcepath", 0)>>, <<"/v1">>)},
     {GroupLabel(0, <<Key("address", 0)>>, <<"a.com">>),
      GroupLabel(0, <<Key("proxy", 0)>>, <<"/", " ", " ", "10.0.0.9">>),
      GroupLabel(1, <<Key("address", 0)>>, <<"b.com">>),
      GroupLabel(1, <<Key("tls", 0)>>, <<"{{.Name}}", ".pem">>)},
     {GroupLabel(0, <<Key("address", 0)>>, <<"a.com">>),
      GroupLabel(1, <<Key("gzip", 0)>>, <<>>),
      GroupLabel(1, <<Key("tls", 1)>>, <<"{{", "x">>),
      Label(<<Key("proxy", 0), Key("address", 0)>>, <<"b.com">>)}}

LabelSets == OneGroupLabelSets \cup TwoGroupLabelSets

\* what getProxyTargets returns: an error, or the addresses in its order
ProxyTargets ==
    {[err |-> TRUE, targets |-> <<>>],
     [err |-> FALSE, targets |-> <<"10.0.0.1">>],
     [err |-> FALSE, targets |-> <<"10.0.0.2", "10.0.0.1">>]}

\* the data the label values are executed on as templates
TemplateData == [Name |-> "web"]

ParseInit ==
    /\ LoaderInit
    /\ worlds = {}
    /\ generator = CreateGenerator([caddyFilePath |-> FALSE, ignoreSwarmError |-> FALSE,
                                    validateNetwork |-> FALSE])
    /\ genOut = NoGenOut

\* one call of parseDirectives on the labels of one resource, its result
\* merged into an empty document and written: call records the labels, the
\* resolver's answer, the result and the text
Parse ==
    /\ call.fn = "none"
    /\ \E labels \in LabelSets : \E getProxyTargets \in ProxyTargets :
       \E r \in parseDirectives(labels, TemplateData, getProxyTargets) :
           call' = [fn |-> "parseDirectives",
                    labels |-> labels,
                    getProxyTargets |-> getProxyTargets,
                    result |-> r,
                    caddyfile |-> writeDirectives(r.convertedMap, 0)]
    /\ UNCHANGED <<initialized, timer, skipEvents, input, processCaddyfile,
                   previousCaddyfile, previousLogs, generator, worlds, updates,
                   monitor, genOut, lastOutcome, sinceStart, lastRejected>>

SpecParse == ParseInit /\ [][Parse]_vars

\* ----------------- update from validation to reload (lines 189-207), step by step
\* the executions of update validate and install their documents without a
\* lock; only lines 189-207 of each are followed here
ApplyDocuments ==
    {EmptyCaddyfile,
     writeDirectives(Site("a.com", Proxy("10.0.0.1")), 0),
     writeDirectives(Site("b.com", Tls(0, "off")), 0)}

ApplyInit ==
    /\ LoaderInit
    /\ worlds = {}
    /\ generator = CreateGenerator([caddyFilePath |-> FALSE, ignoreSwarmError |-> FALSE,
                                    validateNetwork |-> FALSE])
    /\ genOut = NoGenOut

\* lines 189-194: an execution of update, the one Load runs (first, with
\* reloadIfChanged false) or one the timer started, has a changed document
\* and calls caddy.ValidateAndExecuteDirectives
ValidateCall(t) ==
    /\ updates[t].pc = "idle"
    /\ lastOutcome' = NoOutcome
    /\ \E caddyfile \in ApplyDocuments :
        IF ~initialized
        THEN /\ t = 1
             /\ initialized' = TRUE
             /\ updates' = [updates EXCEPT ![t] =
                    [NoUpdate EXCEPT !.pc = "validate", !.by = "load",
                                     !.caddyfile = caddyfile]]
        ELSE /\ initialized' = initialized
             /\ updates' = [updates EXCEPT ![t] =
                    [NoUpdate EXCEPT !.pc = "validate", !.by = "poll",
                                     !.reloadIfChanged = TRUE,
                                     !.caddyfile = caddyfile]]
    /\ UNCHANGED <<timer, skipEvents, input, processCaddyfile, previousCaddyfile,
                   previousLogs, generator, worlds, monitor, genOut, sinceStart,
                   lastRejected, call>>

\* line 194: ValidateAndExecuteDirectives returns; call records the last
\* document that passed
ValidateReturn(t) ==
    /\ updates[t].pc = "validate"
    /\ lastOutcome' = NoOutcome
    /\ \E valid \in BOOLEAN :
        IF valid
        THEN /\ updates' = [updates EXCEPT ![t].pc = "assign"]
             /\ call' = [fn |-> "ValidateAndExecuteDirectives",
                         accepted |-> updates[t].caddyfile]
        ELSE /\ updates' = [updates EXCEPT ![t] = NoUpdate]
             /\ call' = call
    /\ UNCHANGED <<initialized, timer, skipEvents, input, processCaddyfile,
                   previousCaddyfile, previousLogs, generator, worlds, monitor,
                   genOut, sinceStart, lastRejected>>

\* line 200: dockerLoader.input = newInput
AssignInput(t) ==
    /\ updates[t].pc = "assign"
    /\ lastOutcome' = NoOutcome
    /\ input' = updates[t].caddyfile
    /\ updates' = IF updates[t].reloadIfChanged
                  THEN [updates EXCEPT ![t].pc = "reload"]
                  ELSE [updates EXCEPT ![t] = NoUpdate]
    /\ UNCHANGED <<initialized, timer, skipEvents, processCaddyfile,
                   previousCaddyfile, previousLogs, generator, worlds, monitor,
                   genOut, sinceStart, lastRejected, call>>

\* lines 202-204: ReloadCaddy(dockerLoader)
Reload(t) ==
    /\ updates[t].pc = "reload"
    /\ lastOutcome' = Outcome("applied", TRUE, TRUE)
    /\ updates' = [updates EXCEPT ![t] = NoUpdate]
    /\ UNCHANGED <<initialized, timer, skipEvents, input, processCaddyfile,
                   previousCaddyfile, previousLogs, generator, worlds, monitor,
                   genOut, sinceStart, lastRejected, call>>

ApplyNext(callers) ==
    \E t \in callers :
        \/ ValidateCall(t)
        \/ ValidateReturn(t)
        \/ AssignInput(t)
        \/ Reload(t)

\* the executions of update interleaved
SpecApply == ApplyInit /\ [][ApplyNext(1..MaxUpdates)]_vars

\* ================================================================ claims
AllUpdates == 1..MaxUpdates

\* the elements of a sequence
Range(f) == {f[i] : i \in DOMAIN f}

\* ----------------------------------------------------------------- C1
\* C1, as stated: in every reachable state at most one execution of
\* DockerLoader.update is in progress.
MutualExclusion == Cardinality(InProgress) <= 1

\* ----------------------------------------------------------------- C2
\* C2, as stated: with the discovered resources unchanged, a cycle that
\* follows one which stored its generated bytes generates the same bytes
\* (diff result UNCHANGED, so validation is not invoked a second time).
\* Stated for the loop whose orchestrator state never changes (SpecSame),
\* and for a cycle that runs while no other is in progress.
IdempotentCycle ==
    \A t \in AllUpdates :
        /\ updates[t].pc = "diff" /\ previousCaddyfile # <<>>
        /\ \A u \in AllUpdates \ {t} : updates[u].pc = "idle"
        => updates[t].caddyfile = previousCaddyfile

\* ----------------------------------------------------------------- C3
\* C3, as stated: after validation has rejected generated bytes, no
\* following cycle that generates the same bytes calls the validator again
\* (stated for a cycle that runs while no other is in progress).
RejectedNeverRetried ==
    \A t \in AllUpdates :
        /\ updates[t].pc = "validate"
        /\ \A u \in AllUpdates \ {t} : updates[u].pc = "idle"
        => lastRejected # <<updates[t].caddyfile>>

\* C3, amended: a rejection leaves input and previousCaddyfile as they are
\* and reloads nothing; the generated bytes (as generated, before
\* ProcessCaddyfile and the empty-document placeholder) were stored in
\* previousCaddyfile by the cycle's diff step before validation, and a cycle
\* goes on to validate exactly when its bytes differ from previousCaddyfile:
\* the same bytes are not validated again while previousCaddyfile holds them.
RejectedNotRetriedWhileStored ==
    [][\A t \in AllUpdates :
        /\ UpdateValidate(t) /\ lastOutcome'.how = "rejected"
            => /\ input' = input
               /\ previousCaddyfile' = previousCaddyfile
               /\ ~lastOutcome'.reloaded
               /\ lastRejected' = <<updates[t].caddyfile>>
        /\ UpdateDiff(t)
            => /\ previousCaddyfile' = updates[t].caddyfile
               /\ input' = input
               /\ updates'[t].pc = "validate" <=>
                      updates[t].caddyfile # previousCaddyfile
               /\ updates[t].caddyfile = previousCaddyfile =>
                      lastOutcome'.how = "unchanged"]_vars

\* C3 witness: bytes were rejected, and the cycle that just ended generated
\* them again and ended unchanged, the active document being another one
RejectedThenUnchanged ==
    /\ lastOutcome.how = "unchanged"
    /\ lastRejected = <<previousCaddyfile>>
    /\ previousCaddyfile # <<>>
    /\ input # previousCaddyfile

\* ----------------------------------------------------------------- C4
\* the failures a world makes GenerateCaddyFile meet
ContainerFailure(w) ==
    \/ w.containerListErr
    \/ \E i \in 1..Len(w.containers) : w.containers[i].err

SwarmFailure(w) ==
    \/ w.info # "active"
    \/ w.serviceListErr
    \/ \E i \in 1..Len(w.services) : w.services[i].err
    \/ w.configListErr
    \/ \E i \in 1..Len(w.configs) : w.configs[i].hasLabel /\ w.configs[i].inspectErr

\* C4, as stated: in strict mode any failure (the probe, the listing of
\* containers, services or configs, resolving a container or a service)
\* makes GenerateCaddyFile return an error.
StrictAbortsOnAnyFailure ==
    \A w \in worlds :
        genOut.called /\ generator.ignoreSwarmError
            /\ (ContainerFailure(w) \/ SwarmFailure(w))
            => genOut.err # ""

\* C4, amended: in strict mode GenerateCaddyFile returns an error exactly
\* when the swarm is unavailable or a swarm source fails (listing services
\* or configs, resolving a service, inspecting a labelled config); a failed
\* container listing or container is only recorded in the diagnostics and
\* the document is still generated.  Without strict mode it never returns
\* an error.
StrictAbortsOnSwarmFailure ==
    \A w \in worlds :
        genOut.called =>
            /\ genOut.err # "" <=> generator.ignoreSwarmError /\ SwarmFailure(w)
            /\ genOut.err # "" => genOut.caddyfile = <<>>
            /\ w.containerListErr /\ genOut.err = ""
                   => ErrorLine("ContainerList") \in Range(genOut.logs)

\* C4 witness: strict mode, the swarm active, listing the services failed,
\* and the call returned an error
StrictAborted ==
    \E w \in worlds :
        /\ genOut.called /\ generator.ignoreSwarmError
        /\ w.info = "active" /\ w.serviceListErr /\ ~ContainerFailure(w)
        /\ genOut.err # ""

\* ----------------------------------------------------------------- C5
\* C5: the steps of a cycle that aborts (the timer reset, the flag reset,
\* GenerateCaddyFile returning an error) leave input, previousCaddyfile and
\* previousLogs unchanged and end the cycle before diff and validation;
\* they set the poll timer and clear skipEvents.
AbortChangesNothing ==
    [][\A t \in AllUpdates :
        /\ UpdateReset(t) =>
              /\ timer' = PollTimer
              /\ UNCHANGED <<input, previousCaddyfile, previousLogs, skipEvents>>
        /\ UpdateClear(t) =>
              /\ skipEvents' = FALSE
              /\ UNCHANGED <<input, previousCaddyfile, previousLogs, timer>>
        /\ UpdateGenerate(t) =>
              /\ UNCHANGED <<input, previousCaddyfile, previousLogs, timer,
                             skipEvents>>
              /\ lastOutcome'.how = "aborted" =>
                    /\ updates'[t] = NoUpdate
                    /\ ~lastOutcome'.reloaded /\ ~lastOutcome'.logged
              /\ updates'[t].pc \in {"idle", "diff"}
              /\ updates'[t].pc = "idle" <=> lastOutcome'.how = "aborted"]_vars

\* C5 witness: a cycle has just aborted while a document was active
AbortedWithActiveDocument ==
    /\ lastOutcome.how = "aborted"
    /\ input # <<>>
    /\ previousCaddyfile # <<>>

\* ----------------------------------------------------------------- C6
\* C6: a cycle whose generated bytes equal previousCaddyfile ends at the
\* diff step: no validation, no reload, input unchanged; previousLogs
\* becomes the new text, which is logged exactly when it differs from the
\* previous text.
UnchangedBytesSkipValidation ==
    [][\A t \in AllUpdates :
        UpdateDiff(t) /\ updates[t].caddyfile = previousCaddyfile
            => /\ updates'[t] = NoUpdate
               /\ input' = input
               /\ previousCaddyfile' = previousCaddyfile
               /\ previousLogs' = updates[t].logs
               /\ lastOutcome'.how = "unchanged"
               /\ ~lastOutcome'.reloaded
               /\ lastOutcome'.logged <=> updates[t].logs # previousLogs]_vars

\* C6 witness: a cycle has just ended unchanged with a non-empty document,
\* having logged its diagnostics because they alone changed
LogsAloneChanged ==
    /\ lastOutcome = Outcome("unchanged", TRUE, FALSE)
    /\ previousCaddyfile # <<>>

\* ----------------------------------------------------------------- C7
\* C7, as stated: once an event has armed the debounce timer, no further
\* event re-arms or postpones it before the debounce-driven regeneration
\* starts: monitorEvents never resets the timer while the debounce timer
\* is armed.
DebounceCoalescing ==
    [][MonitorArm => ~(timer.armed /\ timer.by = "event")]_vars

\* ----------------------------------------------------------------- C8
\* the loader was started by Load: the timer exists
Started == timer.armed \/ InProgress # {}

\* C8: once the subscription has ended monitorEvents stays stopped and never
\* again reads an event, sets skipEvents or arms the timer; and from every
\* state of the started loader another regeneration eventually starts.
MonitorStopsPollingContinues ==
    /\ [][monitor = "stopped" =>
            /\ monitor' = "stopped"
            /\ ~MonitorEvent /\ ~MonitorMark /\ ~MonitorArm
            /\ (skipEvents' => skipEvents)
            /\ (timer'.by = "event" => timer.by = "event")]_vars
    /\ [](Started => <>(\E t \in AllUpdates : updates[t].pc = "reset"))
    /\ [](monitor = "stopped" =>
            <>(\E t \in AllUpdates : updates[t].pc = "reset" /\ updates[t].by = "poll"))

\* C8 witness: the subscription has ended and a poll-driven regeneration has
\* re-armed the poll timer
PollingAfterMonitorStopped ==
    /\ monitor = "stopped"
    /\ \E t \in AllUpdates : updates[t].pc = "clear" /\ updates[t].by = "poll"
    /\ timer = PollTimer

\* ----------------------------------------------------------------- C9
\* C9: every start of update sets the timer to the full polling interval,
\* and an update started by the poll timer starts no sooner than one polling
\* interval after the previous start of update: an update that starts
\* earlier was started by the debounce timer.
PollNeverEarly ==
    [][\A t \in AllUpdates :
        /\ UpdateReset(t) => timer' = PollTimer /\ sinceStart' = 0
        /\ updates'[t].pc = "reset" /\ sinceStart' < pollingInterval
              => updates'[t].by = "event"]_vars

\* C9 witness: an update started by the poll timer has re-armed it, one
\* polling interval after the previous start
PollDrivenStart ==
    \E t \in AllUpdates :
        /\ updates[t].pc = "clear" /\ updates[t].by = "poll"
        /\ timer = PollTimer
        /\ \A u \in AllUpdates \ {t} : updates[u].pc = "idle"

\* ---------------------------------------------------------------- C10
\* the words of a document
DocumentWords(caddyfile) ==
    UNION {Range(caddyfile[i].words) : i \in 1..Len(caddyfile)}

\* C10: when the probe does not report the swarm active and strict mode is
\* off, GenerateCaddyFile returns no error, the document holds no word of a
\* service's directives nor of a config object, it is what the seed and the
\* containers alone generate, and the diagnostics hold the two skip lines.
SwarmUnavailableSkips ==
    \A w \in worlds :
        genOut.called /\ w.info # "active" /\ ~generator.ignoreSwarmError
            => /\ genOut.err = ""
               /\ DocumentWords(genOut.caddyfile) \cap (ServiceWords \cup ConfigWords) = {}
               /\ SkipServicesLine \in Range(genOut.logs)
               /\ SkipConfigsLine \in Range(genOut.logs)
               /\ genOut.caddyfile \in
                     {r.caddyfile : r \in GenerateCaddyFile(generator,
                         [w EXCEPT !.services = <<>>, !.configs = <<>>,
                                   !.serviceListErr = FALSE,
                                   !.configListErr = FALSE])}

\* C10 witness: the swarm is not active, strict mode is off, the world holds
\* containers, a service and a labelled config, and a document was generated
SkippedWithServicesPresent ==
    \E w \in worlds :
        /\ genOut.called /\ w.info = "inactive" /\ ~generator.ignoreSwarmError
        /\ w.services = <<Service1>> /\ w.configs = <<Config1, ConfigUnlabelled>>
        /\ w.containers = <<Container1, Container2>> /\ ~w.containerListErr
        /\ Len(genOut.caddyfile) > 0

\* ---------------------------------------------------------------- C11
\* the world without the resources whose directives cannot be computed
Succeeding(resources) == SelectSeq(resources, LAMBDA r : ~r.err)

WithoutFailing(w) ==
    [w EXCEPT !.containers = Succeeding(@), !.services = Succeeding(@)]

Failing(resources) == {resources[i].id : i \in {j \in DOMAIN resources : resources[j].err}}

\* C11: strict mode off: for every listed container or service whose
\* directives cannot be computed the diagnostics hold its error line, and the
\* document is one that the same world without those resources generates.
FailureIsolation ==
    \A w \in worlds :
        genOut.called /\ ~generator.ignoreSwarmError
            => /\ genOut.err = ""
               /\ ~w.containerListErr
                    => \A id \in Failing(w.containers) :
                          ErrorLine(id) \in Range(genOut.logs)
               /\ generator.swarmIsAvailable /\ ~w.serviceListErr
                    => \A id \in Failing(w.services) :
                          ErrorLine(id) \in Range(genOut.logs)
               /\ genOut.caddyfile \in
                     {r.caddyfile : r \in GenerateCaddyFile(generator, WithoutFailing(w))}

\* C11 witness: strict mode off, a failing container between two succeeding
\* ones and a failing service before a succeeding one; the document holds
\* the site of the container listed after the failing one and the service's
\* words
IsolatedFailures ==
    \E w \in worlds :
        /\ genOut.called /\ ~generator.ignoreSwarmError
        /\ w.containers = <<Container2, ContainerBad, Container3>>
        /\ ~w.containerListErr
        /\ w.services = <<ServiceBad, Service1>> /\ ~w.serviceListErr
        /\ generator.swarmIsAvailable
        /\ ErrorLine("containerBad") \in Range(genOut.logs)
        /\ ErrorLine("serviceBad") \in Range(genOut.logs)
        /\ {"b.com", "service1"} \subseteq DocumentWords(genOut.caddyfile)

\* ---------------------------------------------------------------- C12
\* C12: checkSwarmAvailability executes at most once per cache interval:
\* when it executes, more than swarmAvailabilityCacheInterval has passed
\* since its previous execution (or there was none).
ProbeOncePerInterval ==
    call.fn = "checkSwarmAvailability"
        => call.sincePrevious > swarmAvailabilityCacheInterval

\* ---------------------------------------------------------------- C13
\* C13: checkSwarmAvailability prints a line only on the first check or when
\* the state Info reports differs from the cached one; a failing Info while
\* the cached state is already unavailable prints nothing.
ProbeLogsOnlyOnChange ==
    call.fn = "checkSwarmAvailability" /\ call.log # <<>>
        => \/ call.isFirstCheck
           \/ (call.info = "active") # call.cached

\* ---------------------------------------------------------------- C14
\* the test of mergeDirectives, lines 696-700: two proxy directives with
\* the same first argument
SamePathProxies(subDirectiveA, subDirectiveB) ==
    /\ subDirectiveA.name = "proxy" /\ subDirectiveB.name = "proxy"
    /\ Len(subDirectiveA.args) > 0 /\ Len(subDirectiveB.args) > 0
    /\ subDirectiveA.args[1] = subDirectiveB.args[1]

\* the keys under which the two trees hold children that differ in their
\* arguments and are not same-path proxies
Conflicting(directiveA, directiveB) ==
    {k \in DOMAIN directiveA.children \cap DOMAIN directiveB.children :
        /\ ~SamePathProxies(directiveA.children[k], directiveB.children[k])
        /\ directiveA.children[k].args # directiveB.children[k].args}

\* the keys under which the two trees hold same-path proxies
Accumulating(directiveA, directiveB) ==
    {k \in DOMAIN directiveA.children \cap DOMAIN directiveB.children :
        SamePathProxies(directiveA.children[k], directiveB.children[k])}

\* C14: after mergeDirectives(A, B), for every key k under which A and B
\* hold conflicting children, A's child is still under k and B's child is
\* under a key made of k without its numeric suffix and a generated suffix.
MergeConflictIsolation ==
    call.fn = "mergeDirectives"
        => \A k \in Conflicting(call.directiveA, call.directiveB) :
              /\ k \in DOMAIN call.result.children
              /\ call.result.children[k] = call.directiveA.children[k]
              /\ \E s \in createUniqueSuffix :
                    LET sibling == Key(removeSuffix(k).base, s) IN
                    /\ sibling \in DOMAIN call.result.children
                    /\ call.result.children[sibling] = call.directiveB.children[k]

\* ---------------------------------------------------------------- C15
\* C15: mergeDirectives replaces or removes no child of A (a same-path proxy
\* only gains arguments), and every conflicting child of B is a child of the
\* result under a key A did not hold, so that each conflict adds one child.
MergeNeverOverwrites ==
    call.fn = "mergeDirectives"
        => /\ \A k \in DOMAIN call.directiveA.children :
                /\ k \in DOMAIN call.result.children
                /\ \/ call.result.children[k] = call.directiveA.children[k]
                   \/ /\ k \in Accumulating(call.directiveA, call.directiveB)
                      /\ call.result.children[k].name = call.directiveA.children[k].name
           /\ Cardinality(DOMAIN call.result.children)
                 = Cardinality(DOMAIN call.directiveA.children
                               \cup DOMAIN call.directiveB.children)
                   + Cardinality(Conflicting(call.directiveA, call.directiveB))

\* ---------------------------------------------------------------- C16
\* C16: after mergeDirectives(A, B), under every key where A and B hold proxy
\* directives with the same first argument the result holds one proxy whose
\* arguments are A's followed by B's after the first; when every child of B
\* is such a proxy, the result has exactly the keys of A.
ProxyAccumulation ==
    call.fn = "mergeDirectives"
        => /\ \A k \in Accumulating(call.directiveA, call.directiveB) :
                /\ call.result.children[k].name = "proxy"
                /\ call.result.children[k].args =
                      call.directiveA.children[k].args
                          \o Tail(call.directiveB.children[k].args)
           /\ DOMAIN call.directiveB.children
                 = Accumulating(call.directiveA, call.directiveB)
                => DOMAIN call.result.children = DOMAIN call.directiveA.children

\* C16 witness: a proxy that already accumulated two backends gains a third,
\* and the tree has as many children as before
ThreeBackends ==
    /\ call.fn = "mergeDirectives"
    /\ Key("proxy", 0) \in Accumulating(call.directiveA, call.directiveB)
    /\ DOMAIN call.directiveB.children = {Key("proxy", 0)}
    /\ Len(call.directiveA.children[Key("proxy", 0)].args) = 3
    /\ Len(call.result.children[Key("proxy", 0)].args) = 4
    /\ Cardinality(DOMAIN call.result.children) = 2
    /\ Cardinality(DOMAIN call.directiveA.children) = 2

\* ---------------------------------------------------------------- C18
\* the orders the orchestrator can list the same resources in
Listings(resources) ==
    {[i \in 1..Len(resources) |-> resources[order[i]]] :
        order \in Orders(1..Len(resources))}

\* C18: the document GenerateCaddyFile returns is one it returns for every
\* other order in which the same containers and services can be listed.
DiscoveryOrderIndependence ==
    \A w \in worlds :
        genOut.called /\ genOut.err = ""
            => \A containers \in Listings(w.containers) :
               \A services \in Listings(w.services) :
                  genOut.caddyfile \in
                     {r.caddyfile : r \in GenerateCaddyFile(generator,
                         [w EXCEPT !.containers = containers,
                                   !.services = services])}

\* ---------------------------------------------------------------- C17
\* C17: the text written for the labels of one resource is the text every
\* other run over the same labels writes, whatever order the labels and the
\* groups are visited in.
SerializationDeterminism ==
    call.fn = "parseDirectives"
        => \A r \in parseDirectives(call.labels, TemplateData, call.getProxyTargets) :
              writeDirectives(r.convertedMap, 0) = call.caddyfile

\* ---------------------------------------------------------------- C19
\* the first argument of the group's leaf `name`, between `before` and
\* `after`, or nothing when the group has no such leaf with an argument
Optional(directive, name, before, after) ==
    IF HasArgs(Child(directive, name))
    THEN before \o Child(directive, name)[1].args[1] \o after
    ELSE ""

\* [targetprotocol://]address[:targetport][targetpath]
BackendArg(directive, target) ==
    Optional(directive, "targetprotocol", "", "://") \o target
        \o Optional(directive, "targetport", ":", "")
        \o Optional(directive, "targetpath", "", "")

\* the groups of the labels that hold an address with an argument
AddressGroups(originalMap) ==
    {g \in DOMAIN originalMap : HasArgs(Child(originalMap[g], "address"))}

\* C19: when the resolver answers, for every group of the labels with an
\* address argument and no proxy child the result holds a directive named
\* by the address arguments joined with spaces, without the five reserved
\* leaves, whose proxy child has as arguments the first sourcepath argument
\* or "/", then one argument per resolved address, in the resolver's order,
\* of the form [targetprotocol://]address[:targetport][targetpath].
ProxySynthesis ==
    call.fn = "parseDirectives" /\ ~call.getProxyTargets.err
        => \A originalMap \in convertLabelsToDirectives(call.labels, TemplateData) :
           \A g \in AddressGroups(originalMap) :
              LET directive == originalMap[g]
                  name == Join(Child(directive, "address")[1].args)
                  targets == call.getProxyTargets.targets
              IN Key("proxy", 0) \notin DOMAIN directive.children
                    => /\ ~call.result.err
                       /\ Key(name, 0) \in DOMAIN call.result.convertedMap
                       /\ LET site == call.result.convertedMap[Key(name, 0)] IN
                          /\ site.name = name
                          /\ DOMAIN site.children \cap ReservedKeys = {}
                          /\ Key("proxy", 0) \in DOMAIN site.children
                          /\ site.children[Key("proxy", 0)].name = "proxy"
                          /\ site.children[Key("proxy", 0)].args =
                                <<IF HasArgs(Child(directive, "sourcepath"))
                                  THEN Child(directive, "sourcepath")[1].args[1]
                                  ELSE "/">>
                                \o [i \in 1..Len(targets) |->
                                       BackendArg(directive, targets[i])]

\* ---------------------------------------------------------------- C20
\* C20: for every group of the labels with an address argument and a proxy
\* child, with or without arguments, getProxyTargets is not called; when
\* every group with an address has one, parseDirectives returns no error,
\* whatever getProxyTargets would answer; and the proxy child of the result
\* has the arguments of the proxy label.
ExplicitProxySuppressesResolver ==
    call.fn = "parseDirectives"
        => \A originalMap \in convertLabelsToDirectives(call.labels, TemplateData) :
           LET explicit == {g \in AddressGroups(originalMap) :
                               Key("proxy", 0) \in DOMAIN originalMap[g].children}
           IN /\ call.result.invoked \cap explicit = {}
              /\ explicit = AddressGroups(originalMap) => ~call.result.err
              /\ \A g \in explicit :
                    LET name == Join(Child(originalMap[g], "address")[1].args) IN
                    ~call.result.err
                        => /\ Key(name, 0) \in DOMAIN call.result.convertedMap
                           /\ call.result.convertedMap[Key(name, 0)]
                                 .children[Key("proxy", 0)].args
                                 = originalMap[g].children[Key("proxy", 0)].args

\* ---------------------------------------------------------------- C21
\* C21: when a cycle has ended without abort and without the validator's
\* rejection, the active document (what Load returns) is not empty, and it
\* is the placeholder when the bytes generated last are empty.
NeverEmptyAfterCycle ==
    lastOutcome.how \in {"unchanged", "applied"}
        => /\ input # <<>>
           /\ previousCaddyfile = <<>> => input = EmptyCaddyfile

\* ---------------------------------------------------------------- C22
\* a relevant event has been received and no execution of update has
\* cleared skipEvents since: monitorEvents is between its test of the flag
\* and timer.Reset, or the flag is set (events received meanwhile are
\* dropped at line 122)
EventPending == monitor \in {"mark", "arm"} \/ skipEvents

\* an execution of update has not yet called GenerateCaddyFile
DiscoveryAhead == \E t \in AllUpdates : updates[t].pc \in {"reset", "clear"}

\* C22: whenever a relevant event is pending, an execution of update is, or
\* later comes to be, before its call of GenerateCaddyFile, so a discovery
\* starts after the event was received; and skipEvents, once set, is
\* eventually cleared.
NoEventLost ==
    /\ EventPending ~> DiscoveryAhead
    /\ skipEvents ~> ~skipEvents

\* C22 witness: a timer-driven update is about to clear skipEvents while
\* monitorEvents has set the flag for a new event and not yet reset the timer
EventDuringPollUpdate ==
    /\ monitor = "arm" /\ skipEvents
    /\ \E t \in AllUpdates : updates[t].pc = "clear" /\ updates[t].by = "poll"

\* ---------------------------------------------------------------- C23
\* C23: the active document is the initial empty one or, once an execution
\* of update has installed its document, the last document that passed
\* validation; ReloadCaddy is called only by an execution that has just
\* installed its document, and never by the update Load runs.
ActiveDocumentAccepted ==
    /\ call.fn = "none" => input = <<>>
    /\ (\A t \in AllUpdates : updates[t].pc # "assign") /\ call.fn # "none"
          => input = call.accepted
    /\ \A t \in AllUpdates :
          updates[t].pc = "reload"
              => updates[t].by # "load" /\ updates[t].caddyfile \in ApplyDocuments

====
